---- MODULE Spec2Model ----
(***************************************************************************)
(* Model of util.py: the zpad/zstrip string helpers, the StructMeta        *)
(* metaclass that compiles a __fields__ list into accessors, _keys and a   *)
(* little-endian struct layout, and MapStruct instances with their         *)
(* constructor, setters, pack and unpack.                                  *)
(*                                                                         *)
(* A Python value is a record [t, v]: t is "str", "bytes", "int" or        *)
(* "none" and v is a sequence of numbers (the code points of a str, the    *)
(* bytes of a byte string, the one-element sequence of an int).            *)
(***************************************************************************)
EXTENDS Integers, Sequences, FiniteSets, TLC

\* ---------------------------------------------------------------- bounds
MaxStrLen == 10      \* longest str drawn as an input
MaxArgs   == 2       \* most positional constructor arguments

\* ---------------------------------------------------------------- values
PyStr(s)   == [t |-> "str",   v |-> s]
PyBytes(s) == [t |-> "bytes", v |-> s]
PyInt(n)   == [t |-> "int",   v |-> <<n>>]
PyNone   == [t |-> "none",  v |-> <<>>]

Min(a, b) == IF a < b THEN a ELSE b

Take(s, n) == SubSeq(s, 1, Min(n, Len(s)))

ZeroFill(s, n) == s \o [i \in 1..(n - Len(s)) |-> 0]

\* the position of the first NUL of s, 0 when there is none
FirstNul(s) ==
    IF \E i \in 1..Len(s) : s[i] = 0
    THEN CHOOSE i \in 1..Len(s) : s[i] = 0 /\ \A j \in 1..(i - 1) : s[j] # 0
    ELSE 0

\* bytes.decode('ascii', 'ignore'): bytes above 127 are dropped
RECURSIVE AsciiIgnore(_)
AsciiIgnore(s) ==
    IF s = <<>> THEN <<>>
    ELSE (IF Head(s) < 128 THEN <<Head(s)>> ELSE <<>>) \o AsciiIgnore(Tail(s))

\* ------------------------------------------------- struct module formats
WidthOf(ch) ==
    CASE ch = "x" -> 1
      [] ch = "s" -> 1
      [] ch = "B" -> 1
      [] ch = "h" -> 2

\* the format characters the record types below draw on
FormatChars == {"x", "s", "B", "h"}

Digits == <<"0", "1", "2", "3", "4", "5", "6", "7", "8", "9">>

IsDigit(c) == \E i \in 1..10 : Digits[i] = c

DigitVal(c) == (CHOOSE i \in 1..10 : Digits[i] = c) - 1

\* Struct(fmt): the items of a format string, or a struct.error
RECURSIVE ParseFormat(_, _, _, _, _)
ParseFormat(toks, i, cnt, hasCnt, items) ==
    IF i > Len(toks)
    THEN [ok |-> ~hasCnt, items |-> items]
    ELSE IF IsDigit(toks[i])
    THEN ParseFormat(toks, i + 1, cnt * 10 + DigitVal(toks[i]), TRUE, items)
    ELSE IF toks[i] \in FormatChars
    THEN ParseFormat(toks, i + 1, 0, FALSE,
                     Append(items, [ch |-> toks[i],
                                    cnt |-> IF hasCnt THEN cnt ELSE 1]))
    ELSE [ok |-> FALSE, items |-> items]

\* StructSize with the pad bytes left out of the sum
RECURSIVE StructSize_NoPad(_)
StructSize_NoPad(items) ==
    IF items = <<>> THEN 0
    ELSE (IF Head(items).ch = "x" THEN 0
          ELSE Head(items).cnt * WidthOf(Head(items).ch))
         + StructSize_NoPad(Tail(items))

\* Struct.size under '<': no alignment, the widths add up
RECURSIVE StructSize(_)
StructSize(items) ==
    IF items = <<>> THEN 0
    ELSE Head(items).cnt * WidthOf(Head(items).ch) + StructSize(Tail(items))

\* the value slots of a layout, in order: one per 's' item, cnt per integer
\* item, none for pad bytes
RECURSIVE StructSlots(_)
StructSlots(items) ==
    IF items = <<>> THEN <<>>
    ELSE LET it == Head(items) IN
         (CASE it.ch = "x" -> <<>>
            [] it.ch = "s" -> <<[ch |-> "s", w |-> it.cnt]>>
            [] OTHER       -> [k \in 1..it.cnt |-> [ch |-> it.ch, w |-> WidthOf(it.ch)]])
         \o StructSlots(Tail(items))

IntMin(ch) == CASE ch = "B" -> 0   [] ch = "h" -> -32768
IntMax(ch) == CASE ch = "B" -> 255 [] ch = "h" -> 32767

Pow256(w) == CASE w = 0 -> 1 [] w = 1 -> 256 [] w = 2 -> 65536

\* little-endian two's complement of n on w bytes
EncodeInt(n, w) == [i \in 1..w |-> ((n % Pow256(w)) \div Pow256(i - 1)) % 256]

RECURSIVE LeValue(_)
LeValue(bs) == IF bs = <<>> THEN 0 ELSE Head(bs) + 256 * LeValue(Tail(bs))

\* DecodeInt reading every integer as unsigned
DecodeInt_Unsigned(bs, ch) == LeValue(bs)

DecodeInt(bs, ch) ==
    LET u == LeValue(bs) IN
    IF IntMin(ch) < 0 /\ u > IntMax(ch) THEN u - Pow256(Len(bs)) ELSE u

\* can struct.pack put value val in slot sl
SlotAccepts(sl, val) ==
    IF sl.ch = "s" THEN val.t = "bytes"
    ELSE val.t = "int" /\ val.v[1] >= IntMin(sl.ch) /\ val.v[1] <= IntMax(sl.ch)

\* the bytes of items given the values vals of its slots (all acceptable)
RECURSIVE PackItems(_, _)
PackItems(items, vals) ==
    IF items = <<>> THEN <<>>
    ELSE LET it == Head(items) IN
         CASE it.ch = "x" ->
                ZeroFill(<<>>, it.cnt) \o PackItems(Tail(items), vals)
           [] it.ch = "s" ->
                ZeroFill(Take(vals[1].v, it.cnt), it.cnt)
                    \o PackItems(Tail(items), Tail(vals))
           [] OTHER ->
                IF it.cnt = 0 THEN PackItems(Tail(items), vals)
                ELSE EncodeInt(vals[1].v[1], WidthOf(it.ch))
                       \o PackItems(<<[it EXCEPT !.cnt = it.cnt - 1]>> \o Tail(items),
                                    Tail(vals))

\* Struct.pack(*vals): struct.error on a wrong number of values or on a
\* value its slot does not accept
StructPack(items, vals) ==
    LET slots == StructSlots(items) IN
    IF Len(vals) # Len(slots)
       \/ \E k \in 1..Len(slots) : ~SlotAccepts(slots[k], vals[k])
    THEN [err |-> "struct.error", out |-> <<>>]
    ELSE [err |-> "ok", out |-> PackItems(items, vals)]

RECURSIVE UnpackItems(_, _)
UnpackItems(items, data) ==
    IF items = <<>> THEN <<>>
    ELSE LET it == Head(items) IN
         CASE it.ch = "x" ->
                UnpackItems(Tail(items), SubSeq(data, it.cnt + 1, Len(data)))
           [] it.ch = "s" ->
                <<PyBytes(SubSeq(data, 1, it.cnt))>>
                    \o UnpackItems(Tail(items), SubSeq(data, it.cnt + 1, Len(data)))
           [] OTHER ->
                IF it.cnt = 0 THEN UnpackItems(Tail(items), data)
                ELSE LET w == WidthOf(it.ch) IN
                     <<PyInt(DecodeInt(SubSeq(data, 1, w), it.ch))>>
                       \o UnpackItems(<<[it EXCEPT !.cnt = it.cnt - 1]>> \o Tail(items),
                                      SubSeq(data, w + 1, Len(data)))

\* Struct.unpack(data): struct.error unless data is a byte string of
\* exactly Struct.size bytes
StructUnpack(items, data) ==
    IF data.t # "bytes" THEN [err |-> "TypeError", out |-> <<>>]
    ELSE IF Len(data.v) # StructSize(items)
    THEN [err |-> "struct.error", out |-> <<>>]
    ELSE [err |-> "ok", out |-> UnpackItems(items, data.v)]

\* ------------------------------------------------------- string helpers
ZpadWidth == 8

\* zpad that pads to 8 bytes but keeps a longer str whole
zpad_NoTruncate(chars) ==
    IF chars.t # "str" THEN [err |-> "AttributeError", out |-> <<>>]
    ELSE IF \E i \in 1..Len(chars.v) : chars.v[i] > 255
    THEN [err |-> "UnicodeEncodeError", out |-> <<>>]
    ELSE [err |-> "ok", out |-> ZeroFill(chars.v, ZpadWidth)]

\* zpad(chars): pack('8s', six.b(chars)).  six.b encodes a str as latin-1
\* (UnicodeEncodeError above 255) and has no meaning for any other type.
zpad(chars) ==
    IF chars.t # "str" THEN [err |-> "AttributeError", out |-> <<>>]
    ELSE IF \E i \in 1..Len(chars.v) : chars.v[i] > 255
    THEN [err |-> "UnicodeEncodeError", out |-> <<>>]
    ELSE [err |-> "ok", out |-> ZeroFill(Take(chars.v, ZpadWidth), ZpadWidth)]

\* zstrip that decodes but does not cut at the NUL
zstrip_NoCut(chars) ==
    IF chars.t \notin {"str", "bytes"} THEN [err |-> "TypeError", out |-> <<>>]
    ELSE [err |-> "ok",
          out |-> IF chars.t = "bytes" THEN AsciiIgnore(chars.v) ELSE chars.v]

\* zstrip(chars): bytes are decoded as ASCII, undecodable bytes dropped;
\* the result is cut at the first NUL.  '\0' in chars is a TypeError for a
\* value that is neither str nor bytes.
zstrip(chars) ==
    IF chars.t \notin {"str", "bytes"} THEN [err |-> "TypeError", out |-> <<>>]
    ELSE LET s == IF chars.t = "bytes" THEN AsciiIgnore(chars.v) ELSE chars.v
             k == FirstNul(s)
         IN  [err |-> "ok", out |-> IF k > 0 THEN SubSeq(s, 1, k - 1) ELSE s]

\* ------------------------------------------------------ field descriptors
\* f[0], f[1], f[2] of a __fields__ tuple.  A type code is its characters;
\* none is TRUE for the type code None.
NoneName == "None"

Code(toks) == [none |-> FALSE, toks |-> toks]
NoneCode   == [none |-> TRUE,  toks |-> <<>>]

Field(name, code, default) == [name |-> name, code |-> code, default |-> default]

\* c in f[1]  (a TypeError when f[1] is None: callers test code.none first)
Contains(code, c) == \E i \in 1..Len(code.toks) : code.toks[i] = c

EmptyMap == [n \in {} |-> PyNone]

\* ------------------------------------------------------------ StructMeta
\* [f[0] for f in fields if 'x' not in f[1]]
RECURSIVE KeysOf(_)
KeysOf(fs) ==
    IF fs = <<>> THEN <<>>
    ELSE (IF Contains(Head(fs).code, "x") THEN <<>> ELSE <<Head(fs).name>>)
         \o KeysOf(Tail(fs))

\* "".join(f[1] for f in fields if f[1])
RECURSIVE FormatOf(_)
FormatOf(fs) ==
    IF fs = <<>> THEN <<>> ELSE Head(fs).code.toks \o FormatOf(Tail(fs))

\* StructMeta.__new__: the compiled type, or the exception of the class
\* statement
StructMetaNew(fs) ==
    IF \E i \in 1..Len(fs) : fs[i].code.none
    THEN [status |-> "TypeError", keys |-> <<>>, struct |-> <<>>]
    ELSE LET p == ParseFormat(FormatOf(fs), 1, 0, FALSE, <<>>) IN
         IF ~p.ok
         THEN [status |-> "struct.error", keys |-> <<>>, struct |-> <<>>]
         ELSE [status |-> "ok", keys |-> KeysOf(fs), struct |-> p.items]

\* cls.size and len(cls); instance.size and len(instance)
TypeSize(c) == StructSize(c.struct)
InstanceSize(c) == StructSize(c.struct)

\* the descriptor whose property is bound to name: dict[field_name] is
\* assigned once per non-filler field, the last one wins
PropertyField(fs, name) ==
    fs[CHOOSE i \in 1..Len(fs) :
          /\ fs[i].name = name /\ ~Contains(fs[i].code, "x")
          /\ \A j \in (i + 1)..Len(fs) :
                ~(fs[j].name = name /\ ~Contains(fs[j].code, "x"))]

HasProperty(fs, name) ==
    \E i \in 1..Len(fs) : fs[i].name = name /\ ~Contains(fs[i].code, "x")

\* the setter made by StructMeta._set(f)
PropSet(f, vals, value) ==
    IF Contains(f.code, "s")
    THEN LET z == zstrip(value) IN
         IF z.err # "ok" THEN [err |-> z.err, values |-> vals]
         ELSE [err |-> "ok", values |-> [vals EXCEPT ![f.name] = PyStr(z.out)]]
    ELSE [err |-> "ok", values |-> [vals EXCEPT ![f.name] = value]]

\* setattr(self, name, value) for a name that has a property
SetAttr(fs, vals, name, value) == PropSet(PropertyField(fs, name), vals, value)

\* ------------------------------------------------------------- MapStruct
\* dict([(f[0], f[2]) for f in self.__fields__]): the last tuple of a name
\* wins
DefaultValues(fs) ==
    [n \in {fs[i].name : i \in 1..Len(fs)} |->
        fs[CHOOSE i \in 1..Len(fs) :
              fs[i].name = n /\ \A j \in (i + 1)..Len(fs) : fs[j].name # n].default]

\* setattr over the pairs (keys[k], vs[k]) from k = i on; the first setter
\* that raises stops the loop and what was set before stays set
RECURSIVE SetPairs(_, _, _, _, _)
SetPairs(fs, vals, keys, vs, i) ==
    IF i > Min(Len(keys), Len(vs)) THEN [err |-> "ok", values |-> vals]
    ELSE LET r == SetAttr(fs, vals, keys[i], vs[i]) IN
         IF r.err # "ok" THEN r
         ELSE SetPairs(fs, r.values, keys, vs, i + 1)

\* unpack that decodes the head of a buffer that is too long before it
\* reports the wrong size
UnpackInst_Prefix(fs, c, vals, data) ==
    LET u == StructUnpack(c.struct, data) IN
    IF u.err = "ok" THEN SetPairs(fs, vals, c.keys, u.out, 1)
    ELSE IF data.t = "bytes" /\ Len(data.v) > StructSize(c.struct)
    THEN [err |-> u.err,
          values |-> SetPairs(fs, vals, c.keys,
                              UnpackItems(c.struct, data.v), 1).values]
    ELSE [err |-> u.err, values |-> vals]

\* MapStruct.unpack(data)
UnpackInst(fs, c, vals, data) ==
    LET u == StructUnpack(c.struct, data) IN
    IF u.err # "ok" THEN [err |-> u.err, values |-> vals]
    ELSE SetPairs(fs, vals, c.keys, u.out, 1)

\* the list packs built by MapStruct.pack from field i on
RECURSIVE PackList(_, _, _, _)
PackList(fs, c, vals, i) ==
    IF i > Len(fs) THEN [err |-> "ok", out |-> <<>>]
    ELSE LET f    == fs[i]
             rest == PackList(fs, c, vals, i + 1)
         IN  IF Contains(f.code, "s")
             THEN LET z == zpad(vals[f.name]) IN
                  IF z.err # "ok" THEN [err |-> z.err, out |-> <<>>]
                  ELSE IF rest.err # "ok" THEN rest
                  ELSE [err |-> "ok", out |-> <<PyBytes(z.out)>> \o rest.out]
             ELSE IF \E k \in 1..Len(c.keys) : c.keys[k] = f.name
             THEN IF rest.err # "ok" THEN rest
                  ELSE [err |-> "ok", out |-> <<vals[f.name]>> \o rest.out]
             ELSE rest

\* MapStruct.pack()
PackInst(fs, c, vals) ==
    LET pl == PackList(fs, c, vals, 1) IN
    IF pl.err # "ok" THEN [err |-> pl.err, out |-> <<>>]
    ELSE StructPack(c.struct, pl.out)

\* the two updates in the other order: a positional value overrides the
\* keyword value of its field
MergedArgs_PositionalWins(keys, args, kwargs) ==
    LET n == Min(Len(keys), Len(args)) IN
    [k \in {keys[i] : i \in 1..n} \cup DOMAIN kwargs |->
        IF \E i \in 1..n : keys[i] = k
        THEN args[CHOOSE i \in 1..n :
                     keys[i] = k /\ \A j \in (i + 1)..n : keys[j] # k]
        ELSE kwargs[k]]

\* values.update(dict(zip(self._keys, args))); values.update(kwargs)
MergedArgs(keys, args, kwargs) ==
    LET n == Min(Len(keys), Len(args)) IN
    [k \in {keys[i] : i \in 1..n} \cup DOMAIN kwargs |->
        IF k \in DOMAIN kwargs THEN kwargs[k]
        ELSE args[CHOOSE i \in 1..n :
                     keys[i] = k /\ \A j \in (i + 1)..n : keys[j] # k]]

\* for key, value in values.items(): if key in self._keys: setattr(...)
RECURSIVE SetMerged(_, _, _, _, _)
SetMerged(fs, vals, keys, merged, i) ==
    IF i > Len(keys) THEN [err |-> "ok", values |-> vals]
    ELSE IF keys[i] \notin DOMAIN merged
    THEN SetMerged(fs, vals, keys, merged, i + 1)
    ELSE LET r == SetAttr(fs, vals, keys[i], merged[keys[i]]) IN
         IF r.err # "ok" THEN r
         ELSE SetMerged(fs, r.values, keys, merged, i + 1)

\* MapStruct.__init__(*args, **kwargs); raw is kwargs['bytes'] and hasRaw
\* says whether that keyword was given
MapStructInit(fs, c, args, kwargs, hasRaw, raw) ==
    IF hasRaw THEN UnpackInst(fs, c, DefaultValues(fs), raw)
    ELSE SetMerged(fs, DefaultValues(fs), c.keys,
                   MergedArgs(c.keys, args, kwargs), 1)

\* str(instance): the names listed, in order, as name=value
TextNames(fs) == [i \in 1..Len(fs) |-> fs[i].name]

\* ------------------------------------------------------------ record types
\* the __fields__ lists the model defines types from
IdCount   == <<Field("id", Code(<<"4", "s">>), PyStr(<<>>)),
               Field("count", Code(<<"h">>), PyInt(0))>>
WithFill  == <<Field("name", Code(<<"8", "s">>), PyStr(<<45>>)),
               Field(NoneName, Code(<<"x">>), PyNone),
               Field("n", Code(<<"h">>), PyInt(0))>>
LongName  == <<Field("long", Code(<<"9", "s">>), PyStr(<<>>))>>
VirtNone  == <<Field("a", Code(<<"h">>), PyInt(0)),
               Field("v", NoneCode, PyInt(7))>>
VirtEmpty == <<Field("v", Code(<<>>), PyInt(7)),
               Field("a", Code(<<"h">>), PyInt(0))>>
BadCode   == <<Field("a", Code(<<"z">>), PyInt(0))>>
Counted   == <<Field("a", Code(<<"2", "h">>), PyInt(0))>>
NulDflt   == <<Field("name", Code(<<"8", "s">>), PyStr(<<65, 0, 66>>))>>
NamedPad  == <<Field("b", Code(<<"B">>), PyInt(1)),
               Field("pad", Code(<<"2", "x">>), PyNone),
               Field("tag", Code(<<"1", "2", "s">>), PyStr(<<>>))>>

Schemas == {IdCount, WithFill, LongName, VirtNone, VirtEmpty, BadCode,
            Counted, NulDflt, NamedPad}

\* ------------------------------------------------------------------ inputs
Alpha(n) == [i \in 1..n |-> 64 + i]

StrInputs == {PyStr(Alpha(n)) : n \in 0..MaxStrLen}
             \cup {PyStr(<<65, 0, 66>>), PyStr(<<65, 233, 66>>), PyStr(<<8364>>)}

IntInputs == {PyInt(-2), PyInt(258), PyInt(32768)}

BytesInputs == {PyBytes(<<233, 65, 0, 67>>)}

SetValues == StrInputs \cup IntInputs \cup BytesInputs

Pattern(p, n) ==
    [i \in 1..n |->
        CASE p = 1 -> 64 + i
          [] p = 2 -> IF i = 2 THEN 0 ELSE 64 + i
          [] p = 3 -> IF i = 1 THEN 233 ELSE IF i = 2 THEN 66 ELSE 255]

\* buffers of the type's size, one byte shorter, one byte longer, and empty
BufLens(c) == {n \in {0, TypeSize(c) - 1, TypeSize(c), TypeSize(c) + 1} : n >= 0}

BufInputs(c) == {PyBytes(Pattern(p, n)) : p \in 1..3, n \in BufLens(c)}

\* positional and keyword constructor values; no value is in both sets, so
\* which of the two a field got shows in the instance
PosValues == {PyStr(<<65, 0, 66>>), PyInt(5)}
KwValues  == {PyStr(Alpha(2)), PyInt(7)}

RECURSIVE SeqsUpTo(_, _)
SeqsUpTo(S, n) ==
    IF n = 0 THEN {<<>>}
    ELSE LET shorter == SeqsUpTo(S, n - 1) IN
         shorter \cup {Append(q, x) : q \in {r \in shorter : Len(r) = n - 1}, x \in S}

ArgInputs == SeqsUpTo(PosValues, MaxArgs)

\* keyword names: the names of the type's fields and one unknown name
KwNames(fs) == ({fs[i].name : i \in 1..Len(fs)} \ {NoneName}) \cup {"bogus"}

KwargInputs(fs) == UNION {[D -> KwValues] : D \in SUBSET KwNames(fs)}

\* what accompanies bytes= in a constructor call
RawExtras(fs) ==
    {[args |-> <<>>, kwargs |-> EmptyMap],
     [args |-> <<PyInt(5)>>, kwargs |-> [n \in {fs[1].name} |-> PyStr(Alpha(2))]]}

\* ------------------------------------------------------------------- state
VARIABLES
    fields,   \* __fields__ of the record type
    cls,      \* the type as StructMeta.__new__ left it: status, _keys, _struct
    alive,    \* an instance has been constructed
    values,   \* the instance's _values
    call,     \* the most recent call: its operation, arguments and outcome
    packed,   \* what the most recent pack() returned
    copy,     \* _values of the instance the most recent round trip built
    prim      \* a direct use of zpad and zstrip: the argument and the results

vars == <<fields, cls, alive, values, call, packed, copy, prim>>

PrimIdle == [stage |-> "idle", chars |-> PyStr(<<>>), padded |-> <<>>,
             stripped |-> <<>>]

Call(op, err, name, arg, args, kwargs) ==
    [op |-> op, err |-> err, name |-> name, arg |-> arg, args |-> args,
     kwargs |-> kwargs]

Init ==
    /\ fields \in Schemas
    /\ cls = [status |-> "undefined", keys |-> <<>>, struct |-> <<>>]
    /\ alive = FALSE
    /\ values = EmptyMap
    /\ call = Call("none", "ok", "", PyNone, <<>>, EmptyMap)
    /\ packed = <<>>
    /\ copy = EmptyMap
    /\ prim = PrimIdle

\* the class statement runs StructMeta.__new__
DefineType ==
    /\ cls.status = "undefined"
    /\ cls' = StructMetaNew(fields)
    /\ call' = Call("define", cls'.status, "", PyNone, <<>>, EmptyMap)
    /\ UNCHANGED <<prim, fields, alive, values, packed, copy>>

\* r = T(*args, **kwargs) without bytes=, r naming no instance yet
New(args, kwargs) ==
    /\ cls.status = "ok"
    /\ ~alive
    /\ LET r == MapStructInit(fields, cls, args, kwargs, FALSE, PyNone) IN
       /\ call' = Call("init", r.err, "", PyNone, args, kwargs)
       /\ IF r.err = "ok"
          THEN alive' = TRUE /\ values' = r.values
          ELSE UNCHANGED <<alive, values>>
    /\ packed' = <<>>
    /\ copy' = EmptyMap
    /\ UNCHANGED <<prim, fields, cls>>

\* r = T(*args, bytes=data, **kwargs), r naming no instance yet
NewFromBytes(data, args, kwargs) ==
    /\ cls.status = "ok"
    /\ ~alive
    /\ LET r == MapStructInit(fields, cls, args, kwargs, TRUE, data) IN
       /\ call' = Call("initbytes", r.err, "", data, args, kwargs)
       /\ IF r.err = "ok"
          THEN alive' = TRUE /\ values' = r.values
          ELSE UNCHANGED <<alive, values>>
    /\ packed' = <<>>
    /\ copy' = EmptyMap
    /\ UNCHANGED <<prim, fields, cls>>

\* the instance is dropped; the next record gets a new one
Discard ==
    /\ alive
    /\ alive' = FALSE
    /\ values' = EmptyMap
    /\ call' = Call("discard", "ok", "", PyNone, <<>>, EmptyMap)
    /\ packed' = <<>>
    /\ copy' = EmptyMap
    /\ UNCHANGED <<prim, fields, cls>>

\* instance.name = value, for a name that has a property
SetField(name, value) ==
    /\ alive
    /\ HasProperty(fields, name)
    /\ LET r == SetAttr(fields, values, name, value) IN
       /\ call' = Call("set", r.err, name, PyNone, <<>>, EmptyMap)
       /\ values' = r.values
    /\ packed' = <<>>
    /\ copy' = EmptyMap
    /\ UNCHANGED <<prim, fields, cls, alive>>

\* instance.name = value for a field name without a property: an ordinary
\* attribute is created and _values is not touched
SetPlain(name, value) ==
    /\ alive
    /\ \E i \in 1..Len(fields) : fields[i].name = name
    /\ name # NoneName
    /\ ~HasProperty(fields, name)
    /\ call' = Call("setplain", "ok", name, PyNone, <<>>, EmptyMap)
    /\ packed' = <<>>
    /\ copy' = EmptyMap
    /\ UNCHANGED <<prim, fields, cls, alive, values>>

\* instance.pack()
Pack ==
    /\ alive
    /\ LET r == PackInst(fields, cls, values) IN
       /\ call' = Call("pack", r.err, "", PyNone, <<>>, EmptyMap)
       /\ packed' = r.out
    /\ copy' = EmptyMap
    /\ UNCHANGED <<prim, fields, cls, alive, values>>

\* instance.unpack(data)
Unpack(data) ==
    /\ alive
    /\ LET r == UnpackInst(fields, cls, values, data) IN
       /\ call' = Call("unpack", r.err, "", data, <<>>, EmptyMap)
       /\ values' = r.values
    /\ packed' = <<>>
    /\ copy' = EmptyMap
    /\ UNCHANGED <<prim, fields, cls, alive>>

\* T(bytes=instance.pack()): the round trip of the instance
RoundTrip ==
    /\ alive
    /\ LET p == PackInst(fields, cls, values) IN
       IF p.err # "ok"
       THEN /\ call' = Call("roundtrip", p.err, "", PyNone, <<>>, EmptyMap)
            /\ packed' = <<>>
            /\ copy' = EmptyMap
       ELSE LET r == MapStructInit(fields, cls, <<>>, EmptyMap, TRUE, PyBytes(p.out)) IN
            /\ call' = Call("roundtrip", r.err, "", PyNone, <<>>, EmptyMap)
            /\ packed' = p.out
            /\ copy' = IF r.err = "ok" THEN r.values ELSE EmptyMap
    /\ UNCHANGED <<prim, fields, cls, alive, values>>

Next ==
    \/ DefineType
    \/ \E args \in ArgInputs, kwargs \in KwargInputs(fields) : New(args, kwargs)
    \/ \E data \in BufInputs(cls), x \in RawExtras(fields) :
          NewFromBytes(data, x.args, x.kwargs)
    \/ \E i \in 1..Len(fields), value \in SetValues : SetField(fields[i].name, value)
    \/ \E i \in 1..Len(fields), value \in IntInputs : SetPlain(fields[i].name, value)
    \/ Pack
    \/ \E data \in BufInputs(cls) : Unpack(data)
    \/ RoundTrip
    \/ Discard

Spec == Init /\ [][Next]_vars

\* ------------------------------------------- zpad and zstrip on their own
MaxShort == 3        \* longest str drawn over the whole alphabet

\* every str of at most MaxShort characters over NUL, 'A' and a latin-1
\* letter; the alphabet run up to MaxStrLen with one character replaced
\* by NUL or by the latin-1 letter; one str outside latin-1
PrimInputs ==
    SeqsUpTo({0, 65, 233}, MaxShort)
    \cup {Alpha(n) : n \in 0..MaxStrLen}
    \cup {[Alpha(x[1]) EXCEPT ![x[2]] = c] :
             x \in {y \in (1..MaxStrLen) \X (1..MaxStrLen) : y[2] <= y[1]},
             c \in {0, 233}}
    \cup {<<65, 8364>>}

InitStr ==
    /\ fields = IdCount
    /\ cls = [status |-> "undefined", keys |-> <<>>, struct |-> <<>>]
    /\ alive = FALSE
    /\ values = EmptyMap
    /\ call = Call("none", "ok", "", PyNone, <<>>, EmptyMap)
    /\ packed = <<>>
    /\ copy = EmptyMap
    /\ \E s \in PrimInputs : prim = [PrimIdle EXCEPT !.stage = "arg", !.chars = PyStr(s)]

\* padded = zpad(chars)
CallZpad ==
    /\ prim.stage = "arg"
    /\ LET z == zpad(prim.chars) IN
       prim' = [prim EXCEPT !.stage = IF z.err = "ok" THEN "padded" ELSE "raised",
                            !.padded = z.out]
    /\ UNCHANGED <<fields, cls, alive, values, call, packed, copy>>

\* stripped = zstrip(padded)
CallZstrip ==
    /\ prim.stage = "padded"
    /\ LET z == zstrip(PyBytes(prim.padded)) IN
       prim' = [prim EXCEPT !.stage = "stripped", !.stripped = z.out]
    /\ UNCHANGED <<fields, cls, alive, values, call, packed, copy>>

NextStr == CallZpad \/ CallZstrip

SpecStr == InitStr /\ [][NextStr]_vars

\* --------------------------------------- the layout as the fields declare it
IsFiller(f)  == ~f.code.none /\ Contains(f.code, "x")
IsVirtual(f) == f.code.none \/ f.code.toks = <<>>
IsString(f)  == ~f.code.none /\ Contains(f.code, "s")
IsStored(f)  == ~IsFiller(f) /\ ~IsVirtual(f)

HasVirtual(fs) == \E i \in 1..Len(fs) : IsVirtual(fs[i])

\* the number the leading digits of a type code spell
RECURSIVE DeclCount(_, _)
DeclCount(toks, acc) ==
    IF toks # <<>> /\ IsDigit(Head(toks))
    THEN DeclCount(Tail(toks), acc * 10 + DigitVal(Head(toks)))
    ELSE acc

\* the byte width a field declares: none for a virtual field, N for 'Ns'
\* and 'Nx', the width of the integer type otherwise
DeclWidth(f) ==
    IF IsVirtual(f) THEN 0
    ELSE LET toks == f.code.toks
             last == toks[Len(toks)]
             n    == IF IsDigit(toks[1]) THEN DeclCount(toks, 0) ELSE 1
         IN  CASE last \in {"s", "x", "B"} -> n
               [] last = "h" -> 2 * n
               [] OTHER -> 0

\* a type whose every field is one integer, an N-byte string or filler
Regular(fs) ==
    \A i \in 1..Len(fs) :
        /\ ~IsVirtual(fs[i])
        /\ LET toks == fs[i].code.toks IN
           /\ toks[Len(toks)] \in FormatChars
           /\ \A k \in 1..(Len(toks) - 1) : IsDigit(toks[k])
           /\ Len(toks) > 1 => toks[Len(toks)] \in {"s", "x"}

RECURSIVE SumWidths(_)
SumWidths(fs) == IF fs = <<>> THEN 0 ELSE DeclWidth(Head(fs)) + SumWidths(Tail(fs))

\* the byte offset of field i
Offset(fs, i) == SumWidths(SubSeq(fs, 1, i - 1))

Slice(buf, off, w) == SubSeq(buf, off + 1, off + w)

Zeros(n) == [i \in 1..n |-> 0]

NulFree(s) == \A k \in 1..Len(s) : s[k] # 0
IsAscii(s) == \A k \in 1..Len(s) : s[k] < 128

\* s up to its first NUL
CutAtNul(s) ==
    SubSeq(s, 1, Cardinality({i \in 1..Len(s) : \A j \in 1..i : s[j] # 0}))

\* s without its characters above 127
AsciiPart(s) == SelectSeq(s, LAMBDA c : c < 128)

PackReturned == call.op \in {"pack", "roundtrip"} /\ call.err = "ok"
RoundTripDone == call.op = "roundtrip" /\ call.err = "ok"

\* ------------------------------------------------------------------ claims

\* every string field holds what a setter leaves: a str without NUL
SetterMade ==
    \A i \in 1..Len(fields) :
        IsString(fields[i]) =>
            values[fields[i].name].t = "str" /\ NulFree(values[fields[i].name].v)

\* C1 as stated: after a round trip T(bytes=r.pack()) of an instance whose
\* values are as the constructor and the setters leave them, the new
\* instance equals r on every stored field.
C1_RoundTripExact ==
    (RoundTripDone /\ SetterMade) =>
        \A i \in 1..Len(fields) :
            IsStored(fields[i]) => copy[fields[i].name] = values[fields[i].name]

\* C1 amended: for a type of integers, strings and filler, a round trip
\* returns every integer field unchanged and every string field of width N
\* as its first min(N, 8) characters, without the non-ASCII ones, cut at the
\* first NUL; so a string field comes back equal exactly when its value is
\* ASCII, NUL-free and at most min(N, 8) long.
C1_RoundTripAmended ==
    (RoundTripDone /\ Regular(fields)) =>
        \A i \in 1..Len(fields) :
            LET f == fields[i]
                v == values[f.name]
                m == Min(DeclWidth(f), 8)
            IN  IsStored(f) =>
                  IF IsString(f)
                  THEN /\ copy[f.name] = PyStr(CutAtNul(AsciiPart(Take(v.v, m))))
                       /\ (copy[f.name] = v) <=>
                            (IsAscii(v.v) /\ NulFree(v.v) /\ Len(v.v) <= m)
                  ELSE copy[f.name] = v

C1_Witness ==
    /\ RoundTripDone /\ Regular(fields)
    /\ \E i \in 1..Len(fields) :
          /\ IsString(fields[i])
          /\ Len(values[fields[i].name].v) > Min(DeclWidth(fields[i]), 8)
    /\ \E i \in 1..Len(fields) :
          /\ IsStored(fields[i]) /\ ~IsString(fields[i])
          /\ values[fields[i].name].v[1] < 0

\* C2: whenever pack returns, the buffer is exactly as long as the declared
\* widths of the stored and filler fields add up to, and that sum is the
\* size the type and the instance report, in every state.
C2_SizeInvariant ==
    /\ cls.status = "ok" =>
          TypeSize(cls) = SumWidths(fields) /\ InstanceSize(cls) = SumWidths(fields)
    /\ PackReturned => Len(packed) = SumWidths(fields)

C2_Witness ==
    /\ PackReturned
    /\ \E i \in 1..Len(fields) : IsFiller(fields[i])
    /\ \E i \in 1..Len(fields) :
          /\ IsString(fields[i])
          /\ Len(values[fields[i].name].v) > DeclWidth(fields[i])

C4_PackStringWidthN ==
    (PackReturned /\ Regular(fields)) =>
        \A i \in 1..Len(fields) :
            LET f == fields[i]
                n == DeclWidth(f)
            IN  IsString(f) =>
                  Slice(packed, Offset(fields, i), n)
                    = ZeroFill(Take(values[f.name].v, n), n)

\* C4 amended: pack writes exactly N bytes at a string field of width N:
\* the first min(N, 8) bytes of the value, then NULs up to N; a value of at
\* most min(N, 8) characters is never shortened.
C4_PackStringMin8 ==
    (PackReturned /\ Regular(fields)) =>
        \A i \in 1..Len(fields) :
            LET f == fields[i]
                n == DeclWidth(f)
            IN  IsString(f) =>
                  Slice(packed, Offset(fields, i), n)
                    = ZeroFill(Take(values[f.name].v, Min(n, 8)), n)

C4_Witness ==
    /\ PackReturned /\ Regular(fields)
    /\ \E i \in 1..Len(fields) :
          /\ IsString(fields[i])
          /\ DeclWidth(fields[i]) > 8
          /\ Len(values[fields[i].name].v) > 8
          /\ Len(values[fields[i].name].v) <= DeclWidth(fields[i])

\* C5: unpack of a buffer whose length is not the type's size raises the
\* size error and leaves every value of the instance as it was.
C5_UnpackWrongSize ==
    [][(call'.op = "unpack" /\ Len(call'.arg.v) # TypeSize(cls))
          => (call'.err = "struct.error" /\ values' = values)]_vars

C5_Witness ==
    /\ call.op = "unpack" /\ call.err = "struct.error"
    /\ Len(call.arg.v) # TypeSize(cls)
    /\ \E n \in DOMAIN values : values[n] # DefaultValues(fields)[n]

\* a type code with a character that is neither a digit nor a format
\* character
Malformed(fs) ==
    \E i \in 1..Len(fs) :
        /\ ~fs[i].code.none
        /\ \E k \in 1..Len(fs[i].code.toks) :
              ~IsDigit(fs[i].code.toks[k]) /\ fs[i].code.toks[k] \notin FormatChars

\* C6: a malformed type code fails the definition of the type, and for a
\* type that was defined pack hands the layout as many values as it has
\* value slots.
C6_LayoutMatches ==
    /\ (cls.status # "undefined" /\ Malformed(fields)) => cls.status # "ok"
    /\ (call.op = "pack" /\ cls.status = "ok") =>
          LET pl == PackList(fields, cls, values, 1) IN
          pl.err = "ok" => Len(pl.out) = Len(StructSlots(cls.struct))

\* C7: a type with a virtual field is defined without error; the field has
\* a value, adds no bytes to the size or to the packed buffer, and keeps its
\* value over every pack and unpack, while unpack gives each stored integer
\* field the bytes at its own offset.
C7_VirtualFields ==
    [][HasVirtual(fields) =>
         /\ call'.op = "define" =>
               cls'.status = "ok" /\ TypeSize(cls') = SumWidths(fields)
         /\ alive' =>
               \A i \in 1..Len(fields) :
                   IsVirtual(fields[i]) => fields[i].name \in DOMAIN values'
         /\ call'.op \in {"pack", "unpack"} =>
               \A i \in 1..Len(fields) :
                   IsVirtual(fields[i]) =>
                       values'[fields[i].name] = values[fields[i].name]
         /\ (call'.op = "pack" /\ call'.err = "ok") =>
               Len(packed') = SumWidths(fields)
         /\ (call'.op = "unpack" /\ call'.err = "ok") =>
               \A i \in 1..Len(fields) :
                   (IsStored(fields[i]) /\ ~IsString(fields[i])) =>
                       values'[fields[i].name]
                         = PyInt(DecodeInt(Slice(call'.arg.v, Offset(fields, i),
                                                 DeclWidth(fields[i])),
                                           fields[i].code.toks[1]))]_vars

\* C8: a filler field has no entry in _values, no property, no place in the
\* textual form, and pack writes zero bytes where it lies.
C8_FillerAbsent ==
    alive =>
        \A i \in 1..Len(fields) :
            IsFiller(fields[i]) =>
                /\ fields[i].name \notin DOMAIN values
                /\ \A k \in 1..Len(fields) : TextNames(fields)[k] # fields[i].name
                /\ ~HasProperty(fields, fields[i].name)
                /\ PackReturned =>
                      Slice(packed, Offset(fields, i), DeclWidth(fields[i]))
                        = Zeros(DeclWidth(fields[i]))

\* the index of name n among the keys, 0 when it is none of them
KeyIndex(keys, n) ==
    IF \E k \in 1..Len(keys) : keys[k] = n
    THEN CHOOSE k \in 1..Len(keys) : keys[k] = n
    ELSE 0

\* what an assignment of v leaves in field f
Assigned(f, v) == IF IsString(f) THEN PyStr(CutAtNul(v.v)) ELSE v

\* the value the constructor arguments give for key k of the type: the
\* keyword value under its name, else the positional value at its index
Given(n, k) ==
    IF n \in DOMAIN call.kwargs THEN <<call.kwargs[n]>>
    ELSE IF k <= Len(call.args) THEN <<call.args[k]>>
    ELSE <<>>

\* C9: after construction without bytes=, every non-filler field holds the
\* keyword value assigned under its name, else the positional value at its
\* index among the non-filler fields, else its default; unknown keywords and
\* surplus positional values change nothing and raise nothing (construction
\* raises only when a setter rejects a value it was given).  After
\* construction with bytes=, every stored field holds what unpack decodes at
\* its offset, whatever else was passed.
C9_Construction ==
    /\ (call.op = "init" /\ call.err = "ok") =>
          /\ DOMAIN values = {fields[i].name : i \in 1..Len(fields)}
          /\ \A i \in 1..Len(fields) :
                LET f == fields[i]
                    g == Given(f.name, KeyIndex(cls.keys, f.name))
                IN  IF IsFiller(f) THEN values[f.name] = f.default
                    ELSE values[f.name]
                           = IF g # <<>> THEN Assigned(f, g[1]) ELSE f.default
    /\ (call.op = "init" /\ call.err # "ok") =>
          \E i \in 1..Len(fields) :
              LET f == fields[i]
                  g == Given(f.name, KeyIndex(cls.keys, f.name))
              IN  ~IsFiller(f) /\ IsString(f) /\ g # <<>>
                  /\ g[1].t \notin {"str", "bytes"}
    /\ (call.op = "initbytes" /\ call.err = "ok" /\ Regular(fields)) =>
          \A i \in 1..Len(fields) :
              LET f == fields[i]
                  b == Slice(call.arg.v, Offset(fields, i), DeclWidth(f))
              IN  IF IsFiller(f) THEN values[f.name] = f.default
                  ELSE IF IsString(f)
                  THEN values[f.name] = PyStr(CutAtNul(AsciiPart(b)))
                  ELSE values[f.name] = PyInt(DecodeInt(b, f.code.toks[1]))

C9_Witness ==
    /\ call.op = "init" /\ call.err = "ok"
    /\ "bogus" \in DOMAIN call.kwargs
    /\ Len(call.args) > Len(cls.keys)
    /\ \E k \in 1..Len(cls.keys) :
          /\ cls.keys[k] \in DOMAIN call.kwargs
          /\ call.args[k] # call.kwargs[cls.keys[k]]
          /\ values[cls.keys[k]] = call.kwargs[cls.keys[k]]

====
